---- MODULE Spec2Model ----
(***************************************************************************)
(* Model of src/function.py: class HistoricalLocationWeather.              *)
(*                                                                         *)
(* Dates.  A date STRING 'YYYY-mm-dd' of the year 2020 is the pair         *)
(* <<month, day>>; a parsed datetime / pandas Timestamp is the ordinal of  *)
(* the day in the year (1 = Jan 1st).  Strptime and Strftime convert       *)
(* between the two.  A timestamp with an hour is ordinal * 24 + hour.      *)
(*                                                                         *)
(* Optional values.  The empty tuple stands for a missing key or NaN cell, *)
(* the one-element tuple <<v>> for the value v.                            *)
(***************************************************************************)
EXTENDS Integers, Sequences, FiniteSets, TLC

\* ------------------------------------------------------------------------
\* Bounds of the model
\* ------------------------------------------------------------------------
\* the request dates range over the months 1..MaxMonth of 2020
MaxMonth == 2
\* SpecExtract: number of day records in a dataset, hourly samples and
\* astronomy rows of a day record
MaxDays == 2
MaxHourly == 2
MaxAstro == 3

\* ------------------------------------------------------------------------
\* Optional values, small helpers
\* ------------------------------------------------------------------------
None == <<>>
Some(v) == <<v>>
NaT == -1

Max(a, b) == IF a >= b THEN a ELSE b
Min(a, b) == IF a <= b THEN a ELSE b

\* ------------------------------------------------------------------------
\* Calendar (datetime.strptime, Timestamp.strftime, pandas.date_range)
\* ------------------------------------------------------------------------
DaysInMonth == <<31, 29, 31, 30, 31, 30, 31, 31, 30, 31, 30, 31>>

RECURSIVE DaysBefore(_)
DaysBefore(m) == IF m <= 1 THEN 0 ELSE DaysInMonth[m - 1] + DaysBefore(m - 1)

\* strptime(s, '%Y-%m-%d') raises ValueError exactly when this is FALSE
WellFormed(s) == s[1] \in 1..12 /\ s[2] >= 1 /\ s[2] <= DaysInMonth[s[1]]

Strptime(s) == DaysBefore(s[1]) + s[2]

MonthOf(o) == CHOOSE m \in 1..12 : DaysBefore(m) < o /\ o <= DaysBefore(m) + DaysInMonth[m]

Strftime(o) == <<MonthOf(o), o - DaysBefore(MonthOf(o))>>

MonthStart(m) == DaysBefore(m) + 1
MonthEnd(m) == DaysBefore(m) + DaysInMonth[m]

\* the members of a set of integers as an ascending sequence
RECURSIVE SortedSeq(_)
SortedSeq(S) ==
    IF S = {} THEN <<>>
    ELSE LET lo == CHOOSE x \in S : \A y \in S : x <= y
         IN <<lo>> \o SortedSeq(S \ {lo})

\* pd.date_range(a, b, freq='MS'): the month starts within [a, b]
DateRangeMS(a, b) == SortedSeq({MonthStart(m) : m \in 1..12} \cap a..b)

\* pd.date_range(a, b, freq='M'): the month ends within [a, b]
DateRangeM(a, b) == SortedSeq({MonthEnd(m) : m \in 1..12} \cap a..b)

\* ------------------------------------------------------------------------
\* _retrieve_this_city, lines 96-104: the month chunker
\* ------------------------------------------------------------------------
ListMonthBegin(sd, ed) == <<Strptime(sd)>> \o DateRangeMS(Strptime(sd), Strptime(ed))

\* (faulty variant: the end date is not appended)
ListMonthEnd_noAppend(sd, ed) == DateRangeM(Strptime(sd), Strptime(ed))
ListMonthEnd(sd, ed) == DateRangeM(Strptime(sd), Strptime(ed)) \o <<Strptime(ed)>>

\* zip(list_month_begin, list_month_end) with both members formatted by
\* strftime('%Y-%m-%d'): the longer list is truncated
Chunks(sd, ed) ==
    LET b == ListMonthBegin(sd, ed)
        e == ListMonthEnd(sd, ed)
    IN [i \in 1..Min(Len(b), Len(e)) |-> <<Strftime(b[i]), Strftime(e[i])>>]

\* ------------------------------------------------------------------------
\* Strings of digits: the hourly time code ("0", "300", "1200", ...)
\* ------------------------------------------------------------------------
\* str(n) for a natural number n, as its sequence of decimal digits
RECURSIVE Digits(_)
Digits(n) == IF n < 10 THEN <<n>> ELSE Digits(n \div 10) \o <<n % 10>>

\* str.zfill(4): pad with zeros on the left up to four characters
RECURSIVE Zfill4(_)
Zfill4(t) == IF Len(t) >= 4 THEN t ELSE Zfill4(<<0>> \o t)

\* str[:2]
Take2(t) == SubSeq(t, 1, Min(2, Len(t)))

\* line 73: day_df['time'].str.zfill(4).str[:2]; a NaN cell stays NaN
NormalizeTime(t) == IF t = None THEN None ELSE Some(Take2(Zfill4(t[1])))

\* line 74: pd.to_datetime(date + ' ' + time, errors='coerce').  The sum of
\* the strings is NaN when either cell is missing, and NaN or an unparsable
\* string is coerced to NaT.
ToDatetime(date, hh) ==
    IF date = None \/ hh = None THEN NaT
    ELSE IF Len(hh[1]) # 2 \/ ~WellFormed(date[1]) THEN NaT
    ELSE LET hour == 10 * hh[1][1] + hh[1][2]
         IN IF hour > 23 THEN NaT ELSE Strptime(date[1]) * 24 + hour

\* ------------------------------------------------------------------------
\* DataFrame columns: sequences of optional cells
\* ------------------------------------------------------------------------
\* a column of a frame with n rows, aligned on the row index 0..r-1
Reindex(col, r) == [i \in 1..r |-> IF i <= Len(col) THEN col[i] ELSE None]

\* DataFrame.ffill on one column: a missing cell takes the value of the last
\* cell above it that is not missing, and stays missing if there is none
Ffill(col) ==
    [k \in 1..Len(col) |->
        IF col[k] # None THEN col[k]
        ELSE LET above == {j \in 1..k : col[j] # None}
             IN IF above = {} THEN None
                ELSE col[CHOOSE j \in above : \A j2 \in above : j2 <= j]]

\* ------------------------------------------------------------------------
\* _extract_data, lines 52-92
\* ------------------------------------------------------------------------
\* A day record is [date, maxtempC, astronomy, hourly]:
\*   date       optional date string
\*   maxtempC   optional value (stands for the five day-level fields)
\*   astronomy  optional list of rows [sunrise |-> optional value]
\*   hourly     optional list of rows [time |-> optional digits,
\*                                     tempC |-> optional value]
EmptyAstro == [sunrise |-> None]
EmptyHourly == [time |-> None, tempC |-> None]

\* line 57: day_data.get('astronomy', [{}])
AstronomyRows(day) == IF day.astronomy = None THEN <<EmptyAstro>> ELSE day.astronomy[1]
\* line 58: day_data.get('hourly', [{}])
HourlyRows(day) == IF day.hourly = None THEN <<EmptyHourly>> ELSE day.hourly[1]

\* lines 80-86
ColumnsNeeded == {"date_time", "maxtempC", "sunrise", "tempC"}

\* the column labels of pd.concat([main_df, astronomy_df, hourly_df], axis=1):
\* main_df always has the keys of weather_main, the other two frames have the
\* keys that occur in at least one of their rows
DayColumns(day) ==
    LET a == AstronomyRows(day)
        h == HourlyRows(day)
    IN {"date", "maxtempC"}
       \cup (IF \E i \in 1..Len(a) : a[i].sunrise # None THEN {"sunrise"} ELSE {})
       \cup (IF \E i \in 1..Len(h) : h[i].time # None THEN {"time"} ELSE {})
       \cup (IF \E i \in 1..Len(h) : h[i].tempC # None THEN {"tempC"} ELSE {})

\* lines 62-66: the joined frame has as many rows as the longest of the three
\* frames; main_df has len(hourly_df) rows
JoinedRowCount(day) == Max(Len(HourlyRows(day)), Len(AstronomyRows(day)))

\* line 72: 'date' in day_df.columns and 'time' in day_df.columns
HasDateAndTime(day) == "date" \in DayColumns(day) /\ "time" \in DayColumns(day)

\* one iteration of the loop of lines 56-88: "skip" (continue), "raise"
\* (KeyError of day_df[columns_needed]), or the rows the day contributes
DayFrame(day) ==
    LET a == AstronomyRows(day)
        h == HourlyRows(day)
        n == Len(h)
        r == JoinedRowCount(day)
        dateCol == Ffill(Reindex([i \in 1..n |-> day.date], r))
        maxCol == Ffill(Reindex([i \in 1..n |-> day.maxtempC], r))
        sunCol == Ffill(Reindex([i \in 1..Len(a) |-> a[i].sunrise], r))
        timeCol == Ffill(Reindex([i \in 1..n |-> h[i].time], r))
        tempCol == Ffill(Reindex([i \in 1..n |-> h[i].tempC], r))
    IN IF ~HasDateAndTime(day) THEN [status |-> "skip", rows |-> <<>>]
       ELSE IF ~(ColumnsNeeded \subseteq DayColumns(day) \cup {"date_time"})
            THEN [status |-> "raise", rows |-> <<>>]
       ELSE [status |-> "rows",
             rows |-> [i \in 1..r |->
                        [date_time |-> ToDatetime(dateCol[i], NormalizeTime(timeCol[i])),
                         maxtempC |-> maxCol[i],
                         sunrise |-> sunCol[i],
                         tempC |-> tempCol[i]]]]

EmptyFrame == [raised |-> FALSE, columns |-> {}, rows |-> <<>>]

\* day_df before the first iteration
NoDayFrame == [status |-> "none", rows |-> <<>>]

\* one iteration of the loop of lines 56-88 on monthly_data = acc: the day is
\* skipped (continue), its rows are appended (line 88), or the KeyError of
\* line 88 ends the call
AddDay(acc, day) ==
    LET f == DayFrame(day)
    IN IF acc.raised \/ f.status = "raise"
       THEN [raised |-> TRUE, columns |-> {}, rows |-> <<>>]
       ELSE IF f.status = "skip" THEN acc
       ELSE [raised |-> FALSE, columns |-> ColumnsNeeded, rows |-> acc.rows \o f.rows]

\* monthly_data after the iterations that give a and then those that give b
Combine(a, b) ==
    IF a.raised \/ b.raised THEN [raised |-> TRUE, columns |-> {}, rows |-> <<>>]
    ELSE [raised |-> FALSE, columns |-> a.columns \cup b.columns, rows |-> a.rows \o b.rows]

\* the iterations for the day records lo..hi in order, from an empty
\* monthly_data (the range is halved so that the evaluation stays shallow)
RECURSIVE ExtractRange(_, _, _)
ExtractRange(dataset, lo, hi) ==
    IF lo > hi THEN EmptyFrame
    ELSE IF lo = hi THEN AddDay(EmptyFrame, dataset[lo])
    ELSE LET mid == (lo + hi) \div 2
         IN Combine(ExtractRange(dataset, lo, mid), ExtractRange(dataset, mid + 1, hi))

\* lines 54-92
ExtractData(dataset) == ExtractRange(dataset, 1, Len(dataset))

\* ------------------------------------------------------------------------
\* The caller's arguments and the provider's answers (the inputs)
\* ------------------------------------------------------------------------
\* a Python value with its type; only strings pass isinstance(x, str)
PyStr(x) == [type |-> "str", v |-> x]
PyInt(x) == [type |-> "int", v |-> x]

\* day of the month used for a date inside a month
MidDay == 15

ApiKeys == {PyStr("key"), PyInt("0")}
Cities == {PyStr("76446"), PyInt("0")}
\* first, middle and last day of each month, one string that is no date
\* ('2020-02-30') and one value that is no string
DateArgs ==
    {PyStr(<<m, d>>) : m \in 1..MaxMonth, d \in {1, MidDay}}
    \cup {PyStr(<<m, DaysInMonth[m]>>) : m \in 1..MaxMonth}
    \cup {PyStr(<<2, 30>>), PyInt(<<0, 0>>)}
Frequencies == {1, 2, 3, 6, 12, 24}
CsvDirectories == {None, Some("out")}

Args ==
    [api_key : ApiKeys, city : Cities, start_date : DateArgs, end_date : DateArgs,
     frequency : Frequencies, csv_directory : CsvDirectories]

\* the hourly time codes the provider sends for tp=f: "0", str(100 f), ...
TimeCodes(f) == [k \in 1..(24 \div f) |-> Digits((k - 1) * f * 100)]

\* the provider's record of the day with ordinal o, sampled every f hours
FaithfulDay(o, f) ==
    [date |-> Some(Strftime(o)),
     maxtempC |-> Some(o),
     astronomy |-> Some(<<[sunrise |-> Some(o)]>>),
     hourly |-> Some([k \in 1..(24 \div f) |->
                        [time |-> Some(TimeCodes(f)[k]), tempC |-> Some(k)]])]

\* the same record with no 'time' key in its hourly samples
WithoutTime(day) ==
    [day EXCEPT !.hourly = Some([k \in 1..Len(day.hourly[1]) |->
                                   [day.hourly[1][k] EXCEPT !.time = None]])]

\* what the provider answers to a chunk's request
ResponseKinds == {"faithful", "no_time_first", "no_time_all"}

\* json_data['data']['weather'] for the request of the days sd..ed
Weather(sd, ed, f, kind) ==
    LET first == Strptime(sd)
        n == Strptime(ed) - first + 1
    IN [j \in 1..Max(n, 0) |->
          IF kind = "no_time_all" \/ (kind = "no_time_first" /\ j = 1)
          THEN WithoutTime(FaithfulDay(first + j - 1, f))
          ELSE FaithfulDay(first + j - 1, f)]

\* ------------------------------------------------------------------------
\* State
\* ------------------------------------------------------------------------
VARIABLES
    pc,               \* position of the run
    self,             \* the constructor's arguments / the object's fields
    error,            \* the exception that ended the run, "none" if none
    chunks,           \* zip(list_month_begin, list_month_end)
    i,                \* index of the next chunk of the loop of line 103
    fetched,          \* indices of the chunks requested with urlopen
    responses,        \* what the provider answered to each request
    dataset,          \* _extract_data's argument
    d,                \* number of day records the loop of line 56 has taken
    day_df,           \* what the last iteration of that loop made of its day
    monthly_data,     \* _extract_data's accumulated result
    historical_data,  \* the table accumulated by _retrieve_this_city
    returned,         \* the table returned by retrieve_hist_data, if any
    files             \* the files written by to_csv

vars == <<pc, self, error, chunks, i, fetched, responses, dataset, d, day_df,
          monthly_data, historical_data, returned, files>>

\* the state of a call of _extract_data on its own
extractVars == <<dataset, d, day_df, monthly_data>>

\* ------------------------------------------------------------------------
\* __init__, lines 26-50
\* ------------------------------------------------------------------------
IsStr(x) == x.type = "str"

\* (faulty variant: equal dates accepted)
DatesOutOfOrder_strict(s, e) == s > e
\* line 47
DatesOutOfOrder(s, e) == s >= e

\* line 49
ValidFrequencies == {1, 3, 6, 12}

\* the exception __init__ raises for the arguments a, "none" if it returns
CtorError(a) ==
    IF ~IsStr(a.api_key) THEN "TypeError"
    ELSE IF ~IsStr(a.city) THEN "TypeError"
    ELSE IF ~IsStr(a.start_date) \/ ~IsStr(a.end_date) THEN "TypeError"
    ELSE IF ~WellFormed(a.start_date.v) \/ ~WellFormed(a.end_date.v) THEN "ValueError"
    ELSE IF DatesOutOfOrder(Strptime(a.start_date.v), Strptime(a.end_date.v)) THEN "ValueError"
    ELSE IF a.frequency \notin ValidFrequencies THEN "ValueError"
    ELSE "none"

Init ==
    /\ pc = "new"
    /\ self \in Args
    /\ error = "none"
    /\ chunks = <<>>
    /\ i = 1
    /\ fetched = <<>>
    /\ responses = <<>>
    /\ dataset = <<>>
    /\ d = 0
    /\ day_df = NoDayFrame
    /\ monthly_data = EmptyFrame
    /\ historical_data = EmptyFrame
    /\ returned = None
    /\ files = <<>>

Construct ==
    /\ pc = "new"
    /\ error' = CtorError(self)
    /\ pc' = IF CtorError(self) = "none" THEN "constructed" ELSE "ctor_error"
    /\ UNCHANGED <<self, chunks, i, fetched, responses, extractVars,
                   historical_data, returned, files>>

\* ------------------------------------------------------------------------
\* retrieve_hist_data / _retrieve_this_city, lines 94-131
\* ------------------------------------------------------------------------
\* lines 122, 96-102: the call, up to the first iteration of the loop
RetrieveStart ==
    /\ pc = "constructed"
    /\ chunks' = Chunks(self.start_date.v, self.end_date.v)
    /\ i' = 1
    /\ historical_data' = EmptyFrame
    /\ pc' = "loop"
    /\ UNCHANGED <<self, error, fetched, responses, extractVars, returned, files>>

\* line 115: data_this_month['city'] = self.city
TagCity(frame, c) ==
    [raised |-> FALSE,
     columns |-> frame.columns \cup {"city"},
     rows |-> [k \in 1..Len(frame.rows) |->
                 [date_time |-> frame.rows[k].date_time,
                  maxtempC |-> frame.rows[k].maxtempC,
                  sunrise |-> frame.rows[k].sunrise,
                  tempC |-> frame.rows[k].tempC,
                  city |-> c]]]

\* line 116: pd.concat([historical_data, data_this_month])
Concat(a, b) ==
    [raised |-> FALSE, columns |-> a.columns \cup b.columns, rows |-> a.rows \o b.rows]

\* lines 103-116, one iteration whose request is answered
FetchOk ==
    /\ pc = "loop"
    /\ i <= Len(chunks)
    /\ \E kind \in ResponseKinds :
        LET data == Weather(chunks[i][1], chunks[i][2], self.frequency, kind)
            data_this_month == ExtractData(data)
        IN /\ fetched' = Append(fetched, i)
           /\ responses' = Append(responses, kind)
           /\ IF data_this_month.raised
              THEN /\ pc' = "raised"
                   /\ error' = "KeyError"
                   /\ UNCHANGED <<i, historical_data>>
              ELSE /\ historical_data' = Concat(historical_data, TagCity(data_this_month, self.city.v))
                   /\ i' = i + 1
                   /\ UNCHANGED <<pc, error>>
    /\ UNCHANGED <<self, chunks, extractVars, returned, files>>

\* lines 109-111, one iteration whose request fails: urlopen raises (network
\* error, timeout), json.loads raises, or the top-level keys are missing
\* (faulty variant: the exception is caught and the loop goes on)
FetchFail_swallowed ==
    /\ pc = "loop"
    /\ i <= Len(chunks)
    /\ fetched' = Append(fetched, i)
    /\ responses' = Append(responses, "fail")
    /\ i' = i + 1
    /\ UNCHANGED <<pc, error, self, chunks, extractVars, historical_data,
                   returned, files>>
FetchFail ==
    /\ pc = "loop"
    /\ i <= Len(chunks)
    /\ fetched' = Append(fetched, i)
    /\ responses' = Append(responses, "fail")
    /\ pc' = "aborted"
    /\ \E e \in {"URLError", "JSONDecodeError", "KeyError"} : error' = e
    /\ UNCHANGED <<self, chunks, i, extractVars, historical_data, returned, files>>

\* lines 118, 123-131: the loop is over
Finish ==
    /\ pc = "loop"
    /\ i > Len(chunks)
    /\ IF "date_time" \notin historical_data.columns
       THEN \* line 123: set_index raises KeyError
            /\ pc' = "raised"
            /\ error' = "KeyError"
            /\ UNCHANGED <<returned, files>>
       ELSE LET table == [index |-> "date_time",
                          columns |-> historical_data.columns \ {"date_time"},
                          rows |-> historical_data.rows]
            IN /\ files' = IF self.csv_directory # None
                           THEN Append(files, [directory |-> self.csv_directory[1],
                                               name |-> self.city.v,
                                               index |-> table.index,
                                               columns |-> table.columns,
                                               rows |-> table.rows])
                           ELSE files
               /\ returned' = Some(table)
               /\ pc' = "done"
               /\ UNCHANGED error
    /\ UNCHANGED <<self, chunks, i, fetched, responses, extractVars, historical_data>>

Next == Construct \/ RetrieveStart \/ FetchOk \/ FetchFail \/ Finish

Spec == Init /\ [][Next]_vars

\* ------------------------------------------------------------------------
\* _extract_data on its own: one step per iteration of the loop of line 56
\* ------------------------------------------------------------------------
\* the j-th day record of a dataset: with or without a date, its astronomy
\* absent or a list of 0..MaxAstro rows that differ from one another, its
\* hourly samples absent or a list of 0..MaxHourly samples taken every three
\* hours, all with or all without their time code
DayRecords(j) ==
    [date : {None, Some(<<1, j>>)},
     maxtempC : {Some(j)},
     astronomy : {None} \cup {Some([a \in 1..n |-> [sunrise |-> Some(10 * j + a)]]) :
                                n \in 0..MaxAstro},
     hourly : {None}
              \cup {Some([k \in 1..n |-> [time |-> Some(Digits((k - 1) * 300)),
                                          tempC |-> Some(k)]]) : n \in 0..MaxHourly}
              \cup {Some([k \in 1..n |-> [time |-> None, tempC |-> Some(k)]]) :
                      n \in 1..MaxHourly}]

RECURSIVE DatasetsOfLen(_)
DatasetsOfLen(n) ==
    IF n = 0 THEN {<<>>}
    ELSE {Append(ds, day) : ds \in DatasetsOfLen(n - 1), day \in DayRecords(n)}

InitExtract ==
    /\ pc = "extract_loop"
    /\ dataset \in UNION {DatasetsOfLen(n) : n \in 0..MaxDays}
    /\ d = 0
    /\ day_df = NoDayFrame
    /\ monthly_data = EmptyFrame
    /\ self = CHOOSE a \in Args : CtorError(a) = "none"
    /\ error = "none"
    /\ chunks = <<>>
    /\ i = 1
    /\ fetched = <<>>
    /\ responses = <<>>
    /\ historical_data = EmptyFrame
    /\ returned = None
    /\ files = <<>>

\* lines 56-88: one iteration
ExtractDay ==
    /\ pc = "extract_loop"
    /\ d < Len(dataset)
    /\ d' = d + 1
    /\ day_df' = DayFrame(dataset[d + 1])
    /\ monthly_data' = AddDay(monthly_data, dataset[d + 1])
    /\ IF day_df'.status = "raise"
       THEN pc' = "extract_raised" /\ error' = "KeyError"
       ELSE UNCHANGED <<pc, error>>
    /\ UNCHANGED <<self, chunks, i, fetched, responses, dataset, historical_data,
                   returned, files>>

\* lines 90-92
ExtractReturn ==
    /\ pc = "extract_loop"
    /\ d = Len(dataset)
    /\ pc' = "extract_return"
    /\ UNCHANGED <<self, error, chunks, i, fetched, responses, extractVars,
                   historical_data, returned, files>>

NextExtract == ExtractDay \/ ExtractReturn

SpecExtract == InitExtract /\ [][NextExtract]_vars

\* ------------------------------------------------------------------------
\* Properties of the month chunker
\* ------------------------------------------------------------------------
\* the chunk list has been built
Planned == pc \in {"loop", "done", "aborted", "raised"}

StartOrdinal == Strptime(self.start_date.v)
EndOrdinal == Strptime(self.end_date.v)

\* C1: consecutive chunks neither overlap nor leave a gap: each chunk starts
\* on the day after the end of the chunk before it.
C1_Contiguous ==
    Planned =>
        \A k \in 1..(Len(chunks) - 1) :
            Strptime(chunks[k + 1][1]) = Strptime(chunks[k][2]) + 1

\* C2: the chunk list is not empty, its first chunk starts at the start date
\* and its last chunk ends at the end date.
C2_FirstAndLast ==
    Planned =>
        /\ Len(chunks) >= 1
        /\ chunks[1][1] = self.start_date.v
        /\ chunks[Len(chunks)][2] = self.end_date.v

\* a plan of several chunks for which zip dropped the tail of the begin list
C2_Witness ==
    /\ Planned
    /\ Len(chunks) >= 2
    /\ Len(ListMonthBegin(self.start_date.v, self.end_date.v))
         > Len(ListMonthEnd(self.start_date.v, self.end_date.v))

\* C3: there are as many chunks (and, in a run without a failed fetch, as
\* many fetches) as calendar months overlapped by the range, and each chunk
\* lies within one calendar month, its start not after its end.
C3_OnePerMonth ==
    LET months == MonthOf(EndOrdinal) - MonthOf(StartOrdinal) + 1
    IN /\ Planned =>
            /\ Len(chunks) = months
            /\ \A k \in 1..Len(chunks) :
                   /\ chunks[k][1][1] = chunks[k][2][1]
                   /\ Strptime(chunks[k][1]) <= Strptime(chunks[k][2])
       /\ pc = "done" => Len(fetched) = months

\* ------------------------------------------------------------------------
\* Properties of the constructor
\* ------------------------------------------------------------------------
\* the arguments the constructor has to refuse
C4_MustFail ==
    \/ self.api_key.type # "str"
    \/ self.city.type # "str"
    \/ self.start_date.type # "str"
    \/ self.end_date.type # "str"
    \/ self.frequency \notin {1, 3, 6, 12}
    \/ /\ self.start_date.type = "str" /\ self.end_date.type = "str"
       /\ WellFormed(self.start_date.v) /\ WellFormed(self.end_date.v)
       /\ Strptime(self.end_date.v) <= Strptime(self.start_date.v)

\* C4: construction fails with an error and without a fetch for a credential,
\* location or date that is no string, for an end date not after the start
\* date and for a frequency outside {1,3,6,12}; it succeeds only with the
\* start date before the end date and the frequency in {1,3,6,12}.
C4_ConstructionValidates ==
    /\ (pc # "new" /\ C4_MustFail) =>
           /\ pc = "ctor_error"
           /\ error \in {"TypeError", "ValueError"}
    /\ pc = "ctor_error" => fetched = <<>>
    /\ pc \notin {"new", "ctor_error"} =>
           /\ self.start_date.type = "str" /\ self.end_date.type = "str"
           /\ Strptime(self.start_date.v) < Strptime(self.end_date.v)
           /\ self.frequency \in {1, 3, 6, 12}

\* construction refused for an end date equal to the start date, every other
\* argument being acceptable
C4_Witness ==
    /\ pc = "ctor_error"
    /\ error = "ValueError"
    /\ self.api_key.type = "str" /\ self.city.type = "str"
    /\ self.start_date.type = "str" /\ self.end_date = self.start_date
    /\ WellFormed(self.start_date.v)
    /\ self.frequency \in {1, 3, 6, 12}

\* ------------------------------------------------------------------------
\* Properties of _extract_data (SpecExtract)
\* ------------------------------------------------------------------------
\* a day record with a date and a list of hourly samples that all have their
\* time code; its astronomy is any list of rows
C5_Pre(day) ==
    /\ day.date # None
    /\ day.hourly # None
    /\ day.astronomy # None
    /\ \A k \in 1..Len(day.hourly[1]) : day.hourly[1][k].time # None

\* C5: a day record with a date and N hourly samples contributes exactly N
\* rows, all with the day's date and with the same day-summary and astronomy
\* values, whatever the number of rows of its astronomy sub-record.
C5_NRowsPerDay ==
    (d >= 1 /\ C5_Pre(dataset[d])) =>
        /\ day_df.status # "raise"
        /\ Len(day_df.rows) = Len(dataset[d].hourly[1])
        /\ \A k \in 1..Len(day_df.rows) :
               /\ day_df.rows[k].date_time # NaT
               /\ day_df.rows[k].date_time \div 24 = Strptime(dataset[d].date[1])
               /\ day_df.rows[k].maxtempC = dataset[d].maxtempC
               /\ day_df.rows[k].sunrise = day_df.rows[1].sunrise

\* a day record that is complete but for its date, which it may lack
C6_ValidButDate(day) ==
    /\ day.hourly # None
    /\ Len(day.hourly[1]) >= 1
    /\ \A k \in 1..Len(day.hourly[1]) : day.hourly[1][k].time # None
    /\ day.astronomy # None
    /\ Len(day.astronomy[1]) = 1

C6_Pre ==
    /\ \A j \in 1..Len(dataset) : C6_ValidButDate(dataset[j])
    /\ Cardinality({j \in 1..Len(dataset) : dataset[j].date = None}) = 1

RECURSIVE C6_DatedRows(_)
C6_DatedRows(j) ==
    IF j = 0 THEN 0
    ELSE C6_DatedRows(j - 1)
         + (IF dataset[j].date = None THEN 0 ELSE Len(dataset[j].hourly[1]))

\* C6: with one record without a date among valid records, _extract_data
\* does not raise, contributes no row for the record without a date (no row
\* has a missing timestamp) and contributes the rows of the other records.
C6_SkipsUndated ==
    (pc \in {"extract_return", "extract_raised"} /\ C6_Pre) =>
        /\ pc = "extract_return"
        /\ \A k \in 1..Len(monthly_data.rows) : monthly_data.rows[k].date_time # NaT
        /\ Len(monthly_data.rows) = C6_DatedRows(Len(dataset))

\* ------------------------------------------------------------------------
\* Properties of the run
\* ------------------------------------------------------------------------
AllFaithful == \A k \in 1..Len(responses) : responses[k] = "faithful"

\* C7: when every fetch succeeds and the provider returns exactly the days
\* asked for, the returned table has one row per day and hourly sample of the
\* range, with distinct ascending timestamps and the location on every row.
C7_OneRowPerSample ==
    (pc = "done" /\ AllFaithful) =>
        LET rows == returned[1].rows
        IN /\ Len(rows) = (EndOrdinal - StartOrdinal + 1) * (24 \div self.frequency)
           /\ \A k \in 1..(Len(rows) - 1) : rows[k].date_time < rows[k + 1].date_time
           /\ \A k \in 1..Len(rows) : rows[k].city = self.city.v

\* C8: a failed fetch aborts the run: no chunk is fetched twice, the failed
\* fetch is the last one, no file is written and no table is returned.
C8_FailureAborts ==
    /\ \A k \in 1..Len(fetched) : fetched[k] = k
    /\ Len(fetched) = Len(responses)
    /\ (\E k \in 1..Len(responses) : responses[k] = "fail") =>
           /\ pc = "aborted"
           /\ error # "none"
           /\ \A k \in 1..Len(responses) : responses[k] = "fail" <=> k = Len(responses)
           /\ returned = None
           /\ files = <<>>

\* a run aborted after a chunk that gave rows and before the last chunk
C8_Witness ==
    /\ pc = "aborted"
    /\ Len(fetched) >= 2
    /\ Len(fetched) < Len(chunks)
    /\ historical_data.rows # <<>>
    /\ self.csv_directory # None

\* the run has ended and none of its fetches failed
EndedWithoutFailedFetch == pc \in {"done", "raised"}

\* C9: when every fetch succeeds the run returns the table indexed by
\* timestamp; a file is written exactly when a directory was given, at most
\* one, named after the location, with the rows and columns of the table.
C9_ReturnsAndPersists ==
    EndedWithoutFailedFetch =>
        /\ pc = "done"
        /\ returned # None
        /\ returned[1].index = "date_time"
        /\ Len(files) <= 1
        /\ files # <<>> <=> self.csv_directory # None
        /\ files # <<>> =>
               /\ files[1].name = self.city.v
               /\ files[1].directory = self.csv_directory[1]
               /\ files[1].index = returned[1].index
               /\ files[1].columns = returned[1].columns
               /\ files[1].rows = returned[1].rows

\* the timestamps of the days from..to of a chunk, in day and hour order
C10_DaysStamps(from, to) ==
    LET perDay == 24 \div self.frequency
    IN [n \in 1..(Max(to - from + 1, 0) * perDay) |->
          (from + (n - 1) \div perDay) * 24 + ((n - 1) % perDay) * self.frequency]

\* the timestamps of the days of chunk k that have their time codes
C10_ChunkStamps(k) ==
    LET first == Strptime(chunks[k][1])
        last == Strptime(chunks[k][2])
    IN IF responses[k] = "no_time_all" THEN <<>>
       ELSE IF responses[k] = "no_time_first" THEN C10_DaysStamps(first + 1, last)
       ELSE C10_DaysStamps(first, last)

RECURSIVE C10_Stamps(_)
C10_Stamps(k) == IF k = 0 THEN <<>> ELSE C10_Stamps(k - 1) \o C10_ChunkStamps(k)

\* C10: when every fetch succeeds and any number of day records lack the
\* hourly time field, those days are skipped, the rows of the other days
\* come in chunk, day and hour order, and the run completes without raising.
C10_SkipsAndCompletes ==
    EndedWithoutFailedFetch =>
        /\ pc = "done"
        /\ LET rows == returned[1].rows
           IN [k \in 1..Len(rows) |-> rows[k].date_time] = C10_Stamps(Len(chunks))

====
